---- MODULE Spec2Model ----
(***************************************************************************)
(* Model of saveload/details.rs: the per-component codec                   *)
(* (SaveLoadComponent), its blanket pass-through implementation for Copy   *)
(* components, and the tuple implementations of Components::save and       *)
(* Components::load generated by impl_components!.                         *)
(***************************************************************************)
EXTENDS Integers, Sequences, FiniteSets, TLC

\* Longest component tuple explored in full (the macro generates 0..15).
MaxArity == 2

\* Live entity handles and stable markers.
Entity == {"A", "B"}
Marker == {"m1", "m2"}

\* Option<T>: None is the empty tuple, Some(x) the one-element tuple.
None == <<>>
Some(x) == <<x>>

\* Result<T, E>.
Ok(x) == <<"Ok", x>>
Err(e) == <<"Err", e>>
IsOk(r) == r[1] = "Ok"
IsErr(r) == r[1] = "Err"

\* Two kinds of component type: a Copy plain-data component served by the
\* blanket impl, and a component holding an entity reference with its own codec.
Kind == {"Pod", "Link"}
PodVal == {<<"Pod", "p1">>, <<"Pod", "p2">>}
Link(e) == <<"Link", e>>
LinkData(m) == <<"LinkData", m>>

\* Component values and serializable Data of a kind.
Component(kind) == IF kind = "Pod" THEN PodVal ELSE {Link(e) : e \in Entity}
Data(kind) == IF kind = "Pod" THEN PodVal ELSE {LinkData(m) : m \in Marker}
Opt(S) == {None} \cup {Some(x) : x \in S}

\* The lookup closures handed to save (Entity -> Option<M>) and load (M -> Option<Entity>).
SaveIds == [Entity -> Opt(Marker)]
LoadIds == [Marker -> Opt(Entity)]

\* The 3-type bundle whose second component can fail.
FailFastBundle == <<"Pod", "Link", "Pod">>

\* Tuples the macro implements Components for: every tuple of every length
\* 0..MaxArity, and the 3-type bundle.
TypeLists == UNION {[1..n -> Kind] : n \in 0..MaxArity} \cup {FailFastBundle}

\* Storage primitives of the storage engine, per component type.
Get(st, entity) == st[entity]
Insert(st, entity, c) == [st EXCEPT ![entity] = Some(c)]
Remove(st, entity) == [st EXCEPT ![entity] = None]

\* E: From<$a::Error>, the conversion `?` applies to the error of the type at position i.
From(i, err) == <<"E", i, err>>

\* impl SaveLoadComponent<M> for C where C: Copy (type Data = Self, Error = NoError).
\* A codec call yields its result and the keys it asked the lookup for, in order.
DefaultSave(c, ids) == [res |-> Ok(c), asked |-> <<>>]

\* Bug variant of DefaultLoad: rebuilds the component instead of returning the data.
DefaultLoad_Rebuilt(data, ids) == [res |-> Ok(<<"Pod", "p1">>), asked |-> <<>>]

DefaultLoad(data, ids) == [res |-> Ok(data), asked |-> <<>>]

\* A component with one entity reference: save asks the lookup for the marker of
\* the referenced entity, load asks it for the entity of the stored marker; an
\* unresolved reference is the codec's error.
LinkSave(c, ids) ==
    LET target == c[2]
    IN  [res   |-> IF ids[target] = None
                   THEN Err(<<"NoMarker", target>>)
                   ELSE Ok(LinkData(ids[target][1])),
         asked |-> <<target>>]
LinkLoad(data, ids) ==
    LET marker == data[2]
    IN  [res   |-> IF ids[marker] = None
                   THEN Err(<<"NoEntity", marker>>)
                   ELSE Ok(Link(ids[marker][1])),
         asked |-> <<marker>>]

\* SaveLoadComponent::save / ::load, dispatched on the component type.
SaveLoadComponent_save(kind, c, ids) ==
    IF kind = "Pod" THEN DefaultSave(c, ids) ELSE LinkSave(c, ids)
SaveLoadComponent_load(kind, data, ids) ==
    IF kind = "Pod" THEN DefaultLoad(data, ids) ELSE LinkLoad(data, ids)

\* Bug variant of SaveSlot: the codec gets a lookup of its own that maps nothing,
\* not the caller's.
SaveSlot_NoLookup(i, kind, st, entity, ids) ==
    LET got == Get(st, entity)
    IN  IF got = None
        THEN [res |-> Ok(None), called |-> FALSE, asked |-> <<>>]
        ELSE LET r == SaveLoadComponent_save(kind, got[1], [e \in Entity |-> None])
             IN  [res    |-> IF IsOk(r.res) THEN Ok(Some(r.res[2]))
                                            ELSE Err(From(i, r.res[2])),
                  called |-> TRUE,
                  asked  |-> r.asked]

\* One element of the tuple built by Components::save:
\*   $b.get(entity).map(|c| c.save(&mut ids).map(Some)).unwrap_or(Ok(None))?
\* res is Ok(slot), or Err(e) when `?` returns from save.
SaveSlot(i, kind, st, entity, ids) ==
    LET got == Get(st, entity)
    IN  IF got = None
        THEN [res |-> Ok(None), called |-> FALSE, asked |-> <<>>]
        ELSE LET r == SaveLoadComponent_save(kind, got[1], ids)
             IN  [res    |-> IF IsOk(r.res) THEN Ok(Some(r.res[2]))
                                            ELSE Err(From(i, r.res[2])),
                  called |-> TRUE,
                  asked  |-> r.asked]

\* The repetition $( ... )* of Components::save from position i on; acc holds the
\* slots built so far, the positions whose codec ran and the lookup keys asked.
RECURSIVE save_rep(_, _, _, _, _, _)
save_rep(i, tys, entity, storages, ids, acc) ==
    IF i > Len(tys)
    THEN [res |-> Ok(acc.slots), calls |-> acc.calls, asked |-> acc.asked]
    ELSE LET s     == SaveSlot(i, tys[i], storages[i], entity, ids)
             calls == IF s.called THEN Append(acc.calls, i) ELSE acc.calls
             asked == acc.asked \o s.asked
         IN  IF IsErr(s.res)
             THEN [res |-> s.res, calls |-> calls, asked |-> asked]
             ELSE save_rep(i + 1, tys, entity, storages, ids,
                           [slots |-> Append(acc.slots, s.res[2]),
                            calls |-> calls, asked |-> asked])

\* Bug variant of Components::save: every slot is computed before the first `?`,
\* so the codecs after a failing one still run.
Components_save_Eager(tys, entity, storages, ids) ==
    LET r       == save_rep(1, tys, entity, storages, ids,
                            [slots |-> <<>>, calls |-> <<>>, asked |-> <<>>])
        present == {i \in 1..Len(tys) : Get(storages[i], entity) # None}
    IN  [r EXCEPT !.calls = [n \in 1..Cardinality(present) |->
                                CHOOSE i \in present :
                                    Cardinality({j \in present : j < i}) = n - 1]]

\* Bug variant of Components::save: the slots come out in the reverse order.
Components_save_Reversed(tys, entity, storages, ids) ==
    LET r == save_rep(1, tys, entity, storages, ids,
                      [slots |-> <<>>, calls |-> <<>>, asked |-> <<>>])
    IN  IF IsOk(r.res)
        THEN [r EXCEPT !.res = Ok([n \in 1..Len(tys) |-> r.res[2][Len(tys) + 1 - n]])]
        ELSE r

\* Bug variant of Components::save: the empty tuple is refused.
Components_save_RefusesEmpty(tys, entity, storages, ids) ==
    IF Len(tys) = 0
    THEN [res |-> Err(From(0, <<"Empty">>)), calls |-> <<>>, asked |-> <<>>]
    ELSE save_rep(1, tys, entity, storages, ids,
                  [slots |-> <<>>, calls |-> <<>>, asked |-> <<>>])

\* Components::save for the tuple tys.
Components_save(tys, entity, storages, ids) ==
    save_rep(1, tys, entity, storages, ids,
             [slots |-> <<>>, calls |-> <<>>, asked |-> <<>>])

\* Bug variant of LoadSlot: a None slot leaves the storage alone.
LoadSlot_NoRemove(i, kind, st, entity, slot, ids) ==
    IF slot # None
    THEN LET r == SaveLoadComponent_load(kind, slot[1], ids)
         IN  IF IsErr(r.res)
             THEN [res |-> Err(From(i, r.res[2])), st |-> st,
                   called |-> TRUE, asked |-> r.asked]
             ELSE [res |-> Ok(<<>>), st |-> Insert(st, entity, r.res[2]),
                   called |-> TRUE, asked |-> r.asked]
    ELSE [res |-> Ok(<<>>), st |-> st, called |-> FALSE, asked |-> <<>>]

\* Bug variant of LoadSlot: the old instance is removed before the codec runs.
LoadSlot_RemoveFirst(i, kind, st, entity, slot, ids) ==
    IF slot # None
    THEN LET r == SaveLoadComponent_load(kind, slot[1], ids)
         IN  IF IsErr(r.res)
             THEN [res |-> Err(From(i, r.res[2])), st |-> Remove(st, entity),
                   called |-> TRUE, asked |-> r.asked]
             ELSE [res |-> Ok(<<>>), st |-> Insert(st, entity, r.res[2]),
                   called |-> TRUE, asked |-> r.asked]
    ELSE [res |-> Ok(<<>>), st |-> Remove(st, entity),
          called |-> FALSE, asked |-> <<>>]

\* Bug variant of LoadSlot: the loaded value is inserted only where the entity
\* has no instance yet.
LoadSlot_KeepExisting(i, kind, st, entity, slot, ids) ==
    IF slot # None
    THEN LET r == SaveLoadComponent_load(kind, slot[1], ids)
         IN  IF IsErr(r.res)
             THEN [res |-> Err(From(i, r.res[2])), st |-> st,
                   called |-> TRUE, asked |-> r.asked]
             ELSE [res |-> Ok(<<>>),
                   st  |-> IF Get(st, entity) = None
                           THEN Insert(st, entity, r.res[2]) ELSE st,
                   called |-> TRUE, asked |-> r.asked]
    ELSE [res |-> Ok(<<>>), st |-> Remove(st, entity),
          called |-> FALSE, asked |-> <<>>]

\* One element of the repetition of Components::load:
\*   if let Some(a) = $a { $b.insert(entity, $a::load(a, &mut ids)?); }
\*   else { $b.remove(entity); }
\* res is Err(e) when `?` returns from load; st is the storage afterwards.
LoadSlot(i, kind, st, entity, slot, ids) ==
    IF slot # None
    THEN LET r == SaveLoadComponent_load(kind, slot[1], ids)
         IN  IF IsErr(r.res)
             THEN [res |-> Err(From(i, r.res[2])), st |-> st,
                   called |-> TRUE, asked |-> r.asked]
             ELSE [res |-> Ok(<<>>), st |-> Insert(st, entity, r.res[2]),
                   called |-> TRUE, asked |-> r.asked]
    ELSE [res |-> Ok(<<>>), st |-> Remove(st, entity),
          called |-> FALSE, asked |-> <<>>]

\* The repetition $( ... )* of Components::load from position i on, over the
\* storages as mutated so far.
RECURSIVE load_rep(_, _, _, _, _, _, _)
load_rep(i, tys, entity, components, storages, ids, acc) ==
    IF i > Len(tys)
    THEN [res |-> Ok(<<>>), storages |-> storages,
          calls |-> acc.calls, asked |-> acc.asked]
    ELSE LET s     == LoadSlot(i, tys[i], storages[i], entity, components[i], ids)
             calls == IF s.called THEN Append(acc.calls, i) ELSE acc.calls
             asked == acc.asked \o s.asked
             sts   == [storages EXCEPT ![i] = s.st]
         IN  IF IsErr(s.res)
             THEN [res |-> s.res, storages |-> sts, calls |-> calls, asked |-> asked]
             ELSE load_rep(i + 1, tys, entity, components, sts, ids,
                           [calls |-> calls, asked |-> asked])

\* Bug variant of Components::load: a failing slot is skipped and the remaining
\* slots are still applied; the first error is returned at the end.
Components_load_KeepGoing(tys, entity, components, storages, ids) ==
    LET r == load_rep(1, tys, entity, components, storages, ids,
                      [calls |-> <<>>, asked |-> <<>>])
    IN  [r EXCEPT !.storages =
            [i \in 1..Len(tys) |->
                LoadSlot(i, tys[i], storages[i], entity, components[i], ids).st]]

\* Components::load for the tuple tys.
Components_load(tys, entity, components, storages, ids) ==
    load_rep(1, tys, entity, components, storages, ids,
             [calls |-> <<>>, asked |-> <<>>])

\* Payloads of a tuple: one Option<Data> per type, in order.
Payloads(tys) ==
    {p \in [1..Len(tys) -> UNION {Opt(Data(k)) : k \in Kind}] :
        \A i \in 1..Len(tys) : p[i] \in Opt(Data(tys[i]))}

\* Storage tuples of a tuple of types: per type, at most one instance per entity.
StoragesOf(tys) ==
    {s \in [1..Len(tys) -> [Entity -> UNION {Opt(Component(k)) : k \in Kind}]] :
        \A i \in 1..Len(tys) : \A e \in Entity : s[i][e] \in Opt(Component(tys[i]))}

VARIABLES types, storages, last, saved
vars == <<types, storages, last, saved>>

NoCall == [op |-> "none"]

\* The world the caller hands to the bundle: a tuple of component types and its
\* storages in any content; nothing has been called yet.
Init ==
    /\ types \in TypeLists
    /\ storages \in StoragesOf(types)
    /\ last = NoCall
    /\ saved = NoCall

\* Bug variant of Save: the saved instances are taken out of the storages.
Save_Take(entity, ids) ==
    /\ last.op = "none"
    /\ LET r == Components_save(types, entity, storages, ids)
       IN  /\ last' = [op |-> "save", entity |-> entity, ids |-> ids,
                       res |-> r.res, calls |-> r.calls, asked |-> r.asked,
                       before |-> storages]
           /\ saved' = last'
    /\ storages' = [i \in 1..Len(types) |-> Remove(storages[i], entity)]
    /\ UNCHANGED types

\* A call of Components::save(entity, &storages, ids) on the caller's world.
\* The storages are borrowed shared (ReadStorage): save has no way to write them.
Save(entity, ids) ==
    /\ last.op = "none"
    /\ LET r == Components_save(types, entity, storages, ids)
       IN  /\ last' = [op |-> "save", entity |-> entity, ids |-> ids,
                       res |-> r.res, calls |-> r.calls, asked |-> r.asked,
                       before |-> storages]
           /\ saved' = last'
    /\ UNCHANGED <<types, storages>>

\* Body of a call of Components::load(entity, components, &mut storages, ids).
LoadCall(op, entity, components, ids) ==
    LET r == Components_load(types, entity, components, storages, ids)
    IN  /\ storages' = r.storages
        /\ last' = [op |-> op, entity |-> entity, components |-> components,
                    ids |-> ids, res |-> r.res, calls |-> r.calls,
                    asked |-> r.asked, before |-> storages]
        /\ UNCHANGED <<types, saved>>

\* Load of any payload of the tuple onto any entity of the caller's world.
Load(entity, components, ids) ==
    /\ last.op = "none"
    /\ LoadCall("load", entity, components, ids)

\* Load of the payload the preceding save returned, onto any entity.
LoadSaved(entity, ids) ==
    /\ last.op = "save"
    /\ IsOk(last.res)
    /\ LoadCall("load", entity, last.res[2], ids)

\* The same load once more: same entity, payload and lookup.
LoadAgain ==
    /\ last.op = "load"
    /\ LoadCall("reload", last.entity, last.components, last.ids)

\* One call per borrow of the storages. Init ranges over every storage content,
\* so the one call is taken from every world earlier calls could have left.
Next ==
    \/ \E entity \in Entity, ids \in SaveIds : Save(entity, ids)
    \/ /\ last.op = "none"
       /\ \E entity \in Entity, components \in Payloads(types), ids \in LoadIds :
              Load(entity, components, ids)

\* One bundle call on every world.
Spec == Init /\ [][Next]_vars

NextRoundTrip ==
    \/ \E entity \in Entity, ids \in SaveIds : Save(entity, ids)
    \/ \E entity \in Entity, ids \in LoadIds : LoadSaved(entity, ids)
    \/ LoadAgain

\* Save of one entity, load of the payload onto an entity, and the load repeated.
SpecRoundTrip == Init /\ [][NextRoundTrip]_vars

\* The pass-through codec alone: no bundle, no storages.
InitCodec ==
    /\ types = <<>>
    /\ storages = <<>>
    /\ last = NoCall
    /\ saved = NoCall

\* c.save(ids) of a Copy component c.
CodecSave(c, ids) ==
    /\ last.op = "none"
    /\ last' = [op |-> "codec_save", c |-> c, ids |-> ids, out |-> DefaultSave(c, ids)]
    /\ saved' = last'
    /\ UNCHANGED <<types, storages>>

\* C::load(data, ids) of any data.
CodecLoad(data, ids) ==
    /\ last.op = "none"
    /\ last' = [op |-> "codec_load", data |-> data, ids |-> ids,
                out |-> DefaultLoad(data, ids)]
    /\ UNCHANGED <<types, storages, saved>>

\* C::load(data, ids) of the data the preceding save returned.
CodecLoadSaved(ids) ==
    /\ last.op = "codec_save"
    /\ IsOk(last.out.res)
    /\ last' = [op |-> "codec_load", data |-> last.out.res[2], ids |-> ids,
                out |-> DefaultLoad(last.out.res[2], ids)]
    /\ UNCHANGED <<types, storages, saved>>

NextCodec ==
    \/ \E c \in PodVal, ids \in SaveIds : CodecSave(c, ids)
    \/ \E data \in PodVal, ids \in LoadIds : CodecLoad(data, ids)
    \/ \E ids \in LoadIds : CodecLoadSaved(ids)

SpecCodec == InitCodec /\ [][NextCodec]_vars

----------------------------------------------------------------------------
\* Helpers of the properties.

Least(S) == CHOOSE x \in S : \A y \in S : x <= y

\* Positions at which the entity has an instance.
Present(sts, entity) == {i \in 1..Len(sts) : Get(sts[i], entity) # None}

\* The codec calls a bundle call stands for, position by position.
SlotLoad(i, components, ids) == SaveLoadComponent_load(types[i], components[i][1], ids)
InstanceSave(i, sts, entity, ids) ==
    SaveLoadComponent_save(types[i], Get(sts[i], entity)[1], ids)

\* Positions whose codec load of its Some slot fails, whose codec save of the
\* entity's instance fails.
FailingLoads(components, ids) ==
    {i \in 1..Len(types) : components[i] # None /\ IsErr(SlotLoad(i, components, ids).res)}
FailingSaves(sts, entity, ids) ==
    {i \in 1..Len(types) :
        Get(sts[i], entity) # None /\ IsErr(InstanceSave(i, sts, entity, ids).res)}

\* The effect of slot i on the storage of Ti: the loaded value inserted, or the
\* instance removed.
SlotEffect(i, st, entity, components, ids) ==
    IF components[i] # None
    THEN Insert(st, entity, SlotLoad(i, components, ids).res[2])
    ELSE Remove(st, entity)

IsLoad == last.op \in {"load", "reload"}

\* C1: when the codec load at position k is the first to fail, load returns that
\* error converted into E, every storage before k holds the effect of its slot,
\* and every storage after k is as it was before the call.
C1_LoadFailsFastWithoutRollback ==
    IsLoad =>
        LET failing == FailingLoads(last.components, last.ids)
        IN  failing # {} =>
                LET k == Least(failing)
                IN  /\ last.res = Err(From(k, SlotLoad(k, last.components, last.ids).res[2]))
                    /\ \A i \in 1..(k - 1) :
                           storages[i] = SlotEffect(i, last.before[i], last.entity,
                                                    last.components, last.ids)
                    /\ \A j \in (k + 1)..Len(types) : storages[j] = last.before[j]

\* A 3-type load failing at the second type: the first storage was written, the
\* third still holds the instance its None slot would have removed.
C1_Witness ==
    /\ last.op = "load"
    /\ Len(types) = 3
    /\ IsErr(last.res)
    /\ last.res[2][2] = 2
    /\ last.components[1] # None
    /\ Get(storages[1], last.entity) # Get(last.before[1], last.entity)
    /\ last.components[3] = None
    /\ Get(storages[3], last.entity) # None

\* C2: when some codec save fails, save returns the error of the failing type at
\* the smallest position, converted into E, returns no payload, and has invoked
\* the codec of no type after that position.
C2_SaveFailsFast ==
    last.op = "save" =>
        LET failing == FailingSaves(last.before, last.entity, last.ids)
        IN  failing # {} =>
                LET k == Least(failing)
                IN  /\ last.res = Err(From(k, InstanceSave(k, last.before, last.entity,
                                                           last.ids).res[2]))
                    /\ \A n \in 1..Len(last.calls) : last.calls[n] <= k
                    /\ {last.calls[n] : n \in 1..Len(last.calls)} =
                           {i \in Present(last.before, last.entity) : i <= k}

\* A 3-type save failing at the second type, with instances of the first and the
\* third type present.
C2_Witness ==
    /\ last.op = "save"
    /\ Len(types) = 3
    /\ IsErr(last.res)
    /\ last.res[2][2] = 2
    /\ Present(storages, last.entity) = {1, 2, 3}
    /\ last.calls = <<1, 2>>

\* C3: after save, with a payload or with an error, every storage holds what it
\* held before the call.
C3_SaveLeavesStorages ==
    last.op = "save" => storages = last.before

\* A failing save on an entity that has instances: the storages are those of
\* before the call.
C3_Witness ==
    /\ last.op = "save"
    /\ IsErr(last.res)
    /\ Present(storages, last.entity) # {}
    /\ storages = last.before

\* C4: a payload returned by save has one slot per type in order; slot i is None
\* iff the entity has no instance of Ti, and otherwise Some of the codec save of
\* the stored instance.
C4_SavePayloadIsAligned ==
    (last.op = "save" /\ IsOk(last.res)) =>
        LET p == last.res[2]
        IN  /\ Len(p) = Len(types)
            /\ \A i \in 1..Len(types) :
                   IF Get(last.before[i], last.entity) = None
                   THEN p[i] = None
                   ELSE LET r == InstanceSave(i, last.before, last.entity, last.ids)
                        IN  IsOk(r.res) /\ p[i] = Some(r.res[2])

\* A 3-type payload with an absent first type, a Link and a Pod.
C4_Witness ==
    /\ last.op = "save"
    /\ IsOk(last.res)
    /\ types = <<"Pod", "Link", "Pod">>
    /\ last.res[2][1] = None
    /\ last.res[2][2] # None
    /\ last.res[2][3] # None

\* C5: after a successful load the entity's storage for Ti is decided by slot i
\* alone: the codec load of a Some slot, no instance for a None slot.
C5_LoadAppliesEverySlot ==
    (IsLoad /\ IsOk(last.res)) =>
        \A i \in 1..Len(types) :
            Get(storages[i], last.entity) =
                IF last.components[i] # None
                THEN Some(SlotLoad(i, last.components, last.ids).res[2])
                ELSE None

\* A successful load that removed an instance and replaced another by a
\* different value.
C5_Witness ==
    /\ last.op = "load"
    /\ IsOk(last.res)
    /\ \E i \in 1..Len(types) :
           /\ last.components[i] = None
           /\ Get(last.before[i], last.entity) # None
           /\ Get(storages[i], last.entity) = None
    /\ \E i \in 1..Len(types) :
           /\ last.components[i] # None
           /\ Get(last.before[i], last.entity) # None
           /\ Get(storages[i], last.entity) # Get(last.before[i], last.entity)

\* C9: when load fails at position k, the storage of Tk is unchanged.
C9_FailingSlotLeavesItsStorage ==
    (IsLoad /\ IsErr(last.res)) =>
        LET k == last.res[2][2] IN storages[k] = last.before[k]

\* A failing load at a position where the entity had, and keeps, an instance.
C9_Witness ==
    /\ last.op = "load"
    /\ IsErr(last.res)
    /\ last.components[last.res[2][2]] # None
    /\ Get(last.before[last.res[2][2]], last.entity) # None
    /\ Get(storages[last.res[2][2]], last.entity) # None

\* C6: the pass-through codec's save and load return their argument, cannot
\* fail and never call the lookup; loading what save returned gives the
\* component back, whatever the two lookups are.
C6_DefaultCodecIsIdentity ==
    /\ last.op = "codec_save" =>
           last.out = [res |-> Ok(last.c), asked |-> <<>>]
    /\ last.op = "codec_load" =>
           last.out = [res |-> Ok(last.data), asked |-> <<>>]
    /\ (last.op = "codec_load" /\ saved.op = "codec_save") =>
           /\ saved.out.asked = <<>>
           /\ last.out.res = Ok(saved.c)

\* A component saved under one lookup and loaded back under another that maps
\* nothing.
C6_Witness ==
    /\ last.op = "codec_load"
    /\ saved.op = "codec_save"
    /\ \E e \in Entity : saved.ids[e] # None
    /\ \A m \in Marker : last.ids[m] = None
    /\ last.out.res = Ok(saved.c)

\* Link positions of the tuple at which the saved entity had an instance.
SavedLinks ==
    {i \in 1..Len(types) :
        types[i] = "Link" /\ Get(saved.before[i], saved.entity) # None}
SavedTarget(i) == Get(saved.before[i], saved.entity)[1][2]

\* C7: the bundle hands the caller's lookup to each codec. A save whose lookup
\* maps every referenced entity succeeds and each Link slot encodes the marker
\* the lookup gives for the referenced entity; a load of that payload whose
\* lookup maps those markers succeeds and stores Links to the entities that
\* lookup gives.
C7_ReferencesAreTranslated ==
    /\ (saved.op = "save" /\ \A i \in SavedLinks : saved.ids[SavedTarget(i)] # None) =>
           /\ IsOk(saved.res)
           /\ \A i \in SavedLinks :
                  saved.res[2][i] = Some(LinkData(saved.ids[SavedTarget(i)][1]))
    /\ (/\ IsLoad
        /\ saved.op = "save"
        /\ \A i \in SavedLinks : last.ids[saved.ids[SavedTarget(i)][1]] # None) =>
           /\ IsOk(last.res)
           /\ \A i \in SavedLinks :
                  Get(storages[i], last.entity) =
                      Some(Link(last.ids[saved.ids[SavedTarget(i)][1]][1]))

\* A links to B; saved with B -> m2, loaded with m2 -> A: the stored Link
\* references A, not B.
C7_Witness ==
    /\ last.op = "load"
    /\ saved.op = "save"
    /\ saved.entity = "A"
    /\ \E i \in SavedLinks :
           /\ SavedTarget(i) = "B"
           /\ saved.ids["B"] = Some("m2")
           /\ saved.res[2][i] = Some(LinkData("m2"))
           /\ last.ids["m2"] = Some("A")
           /\ Get(storages[i], last.entity) = Some(Link("A"))

\* C8: for the empty tuple save returns the empty payload and load succeeds, for
\* every entity and lookup; no codec runs, no lookup is called, and there is no
\* storage to read or change.
C8_EmptyBundleIsNoOp ==
    types = <<>> =>
        /\ storages = <<>>
        /\ saved.op = "save" =>
               /\ saved.res = Ok(<<>>)
               /\ saved.calls = <<>>
               /\ saved.asked = <<>>
        /\ IsLoad =>
               /\ last.res = Ok(<<>>)
               /\ last.calls = <<>>
               /\ last.asked = <<>>
               /\ last.before = <<>>

\* The empty tuple saved and its payload loaded.
C8_Witness ==
    /\ types = <<>>
    /\ saved.op = "save"
    /\ saved.res = Ok(<<>>)
    /\ last.op = "load"
    /\ last.components = <<>>
    /\ last.res = Ok(<<>>)

\* The codecs of the tuple give the saved entity's instances back under the
\* save lookup and the load lookup.
CodecsRoundTrip ==
    \A i \in Present(saved.before, saved.entity) :
        LET c == Get(saved.before[i], saved.entity)[1]
            s == SaveLoadComponent_save(types[i], c, saved.ids)
        IN  /\ IsOk(s.res)
            /\ SaveLoadComponent_load(types[i], s.res[2], last.ids).res = Ok(c)

\* C10: when the codecs round-trip under the lookups, a successful load of the
\* payload save returned for e1 leaves e2 with e1's instance of every type e1
\* had and with no instance of the others, whatever e2 held; loading the same
\* payload once more changes nothing.
C10_BundleRoundTrip ==
    (IsLoad /\ saved.op = "save" /\ IsOk(last.res)) =>
        /\ CodecsRoundTrip =>
               \A i \in 1..Len(types) :
                   Get(storages[i], last.entity) = Get(saved.before[i], saved.entity)
        /\ last.op = "reload" => storages = last.before

\* e1's payload loaded twice onto another entity that held something else.
C10_Witness ==
    /\ last.op = "reload"
    /\ IsOk(last.res)
    /\ saved.op = "save"
    /\ saved.entity # last.entity
    /\ Len(types) = 3
    /\ CodecsRoundTrip
    /\ Present(saved.before, saved.entity) = {1, 2}
    /\ Present(saved.before, last.entity) = {2, 3}
    /\ Get(saved.before[2], saved.entity) # Get(saved.before[2], last.entity)
    /\ \A i \in 1..3 : Get(storages[i], last.entity) = Get(saved.before[i], saved.entity)

====
